---- MODULE Spec2Model ----
(***************************************************************************)
(* A model of the storefront backend of guiocm/sybill_test: the token      *)
(* codec and permission resolution of app/auth.py, the login route of      *)
(* app/main.py and the user, cart and product routers, over an abstract    *)
(* document store with the collections users, permissions, carts and       *)
(* products.                                                               *)
(*                                                                         *)
(* Every request is handled by one coroutine.  A coroutine gives up        *)
(* control only at an await of a store round trip, so each action below is *)
(* the code between two awaits together with the store operation awaited.  *)
(* The dependency chain of a protected route (get_current_permission_data  *)
(* and get_current_authorized_user_id) runs before the route's body; the   *)
(* body is a later step, so other requests interleave between the two.     *)
(* The route and the client-supplied parameters of a request are not read  *)
(* before the step that uses them, so they are drawn in that step.         *)
(***************************************************************************)
EXTENDS Integers, Sequences, FiniteSets, TLC

VARIABLES
    users,          \* db.users: documents {_id, username, hashed_password, name}
    permissions,    \* db.permissions: documents {user_id, scope}
    carts,          \* db.carts: documents {_id, user_id, items}
    products,       \* db.products: documents {_id, price}
    usernameIndex,  \* the unique index on users.username exists
    pendingInserts, \* insert_many operations started and not yet completed
    nextOid,        \* ObjectIds handed out so far, per collection
    tokens,         \* the bearer tokens issued by login_for_access_token, each
                    \* with the time of issue and the identity it was issued to
    now,            \* the wall clock, in ticks
    procs           \* the request-handling coroutines

vars == <<users, permissions, carts, products, usernameIndex, pendingInserts,
          nextOid, tokens, now, procs>>

store == <<users, permissions, carts, products>>

(***************************************************************************)
(* Bounds of the model.                                                    *)
(***************************************************************************)
MaxUsers == 2       \* identities ever inserted
MaxCarts == 3       \* carts ever inserted
MaxProducts == 1    \* products ever inserted
MaxItems == 3       \* items pushed to one cart
MaxTokens == 2      \* tokens issued
MaxClock == 2       \* clock advances

Procs == {"p1", "p2"}
Usernames == {"alice", "bob"}
Passwords == {"pw1", "pw2"}
Names == {"Al"}

(***************************************************************************)
(* Program constants.                                                      *)
(***************************************************************************)
SECRET_KEY == "09d25e09"
ACCESS_TOKEN_EXPIRE_MINUTES == 1440
BASE_PERMISSIONS == <<"shopper", "me">>
ADMIN_PERMISSIONS == <<"admin">>
Scopes == {"shopper", "me", "admin"}

\* The clock counts half seconds, so that an instant between two whole
\* seconds exists; a JWT NumericDate counts whole seconds.
TicksPerSecond == 2
ExpireTicks == ACCESS_TOKEN_EXPIRE_MINUTES * 60 * TicksPerSecond

(***************************************************************************)
(* Values.                                                                 *)
(***************************************************************************)
\* An ObjectId is the collection it was assigned in and a serial number.
NoId == <<"none", 0>>
Oid(coll, n) == <<coll, n>>

\* A client-supplied identifier is a string; it may not be the 24 hex digits
\* of an ObjectId.
IdStr(oid) == [wf |-> TRUE, oid |-> oid]
MalformedId == [wf |-> FALSE, oid |-> NoId]

\* str(ObjectId) and bson.ObjectId(str).
parse_object_id(id_str) ==
    IF id_str.wf
    THEN [ok |-> TRUE, oid |-> id_str.oid, status |-> 200, detail |-> ""]
    ELSE [ok |-> FALSE, oid |-> NoId, status |-> 400, detail |-> "Invalid ObjectId"]

\* passlib's bcrypt context: the digest is not the password.
NoHash == <<"", "">>
get_password_hash(password) == <<"bcrypt", password>>
\* A variant that accepts any password.
verify_password_any(plain_password, hashed_password) == TRUE

verify_password(plain_password, hashed_password) ==
    hashed_password = get_password_hash(plain_password)

NoToken == [wf |-> FALSE, key |-> "", has_sub |-> FALSE, sub |-> "", exp |-> 0]
NoCart == [_id |-> NoId, user_id |-> NoId, items |-> <<>>]

\* The User response model: the document without its password hash.
UserBody(user) == [_id |-> user._id, username |-> user.username, name |-> user.name]

\* An HTTP answer: status, detail (its text and the ids it quotes), the
\* WWW-Authenticate header and the body.
Response(status, detail) ==
    [status |-> status, detail |-> detail, about |-> <<NoId, NoId>>, hdr |-> "",
     users |-> {}, cart |-> NoCart, products |-> <<>>, token |-> NoToken]
NoResponse == Response(0, "")

(***************************************************************************)
(* Token codec (app/auth.py, PyJWT).                                       *)
(***************************************************************************)
\* jwt.encode: a datetime claim is written as a NumericDate of whole seconds
\* (timegm of the UTC time tuple, which has no fraction).
jwt_encode(sub, expire, key) ==
    [wf |-> TRUE, key |-> key, has_sub |-> TRUE, sub |-> sub,
     exp |-> expire \div TicksPerSecond]

create_access_token(sub, t) ==
    jwt_encode(sub, t + ExpireTicks, SECRET_KEY)

\* A variant that still accepts a token at the instant of its expiry.
jwt_decode_late(token, key, t) ==
    IF token.wf /\ token.key = key /\ ~(token.exp * TicksPerSecond < t)
    THEN [ok |-> TRUE, has_sub |-> token.has_sub, sub |-> token.sub]
    ELSE [ok |-> FALSE, has_sub |-> FALSE, sub |-> ""]

\* jwt.decode: InvalidTokenError for a malformed token, a signature made with
\* another key and an expiry at or before the current time.
jwt_decode(token, key, t) ==
    IF token.wf /\ token.key = key /\ ~(token.exp * TicksPerSecond <= t)
    THEN [ok |-> TRUE, has_sub |-> token.has_sub, sub |-> token.sub]
    ELSE [ok |-> FALSE, has_sub |-> FALSE, sub |-> ""]

IssuedTokens == {t.tok : t \in tokens}

\* The tokens a client can present that login never issued.
ForgedTokens ==
    { [wf |-> FALSE, key |-> "", has_sub |-> FALSE, sub |-> "", exp |-> 0],
      [wf |-> TRUE, key |-> "other", has_sub |-> TRUE, sub |-> "alice",
       exp |-> (2 * ExpireTicks) \div TicksPerSecond + 1],
      [wf |-> TRUE, key |-> SECRET_KEY, has_sub |-> FALSE, sub |-> "",
       exp |-> (2 * ExpireTicks) \div TicksPerSecond + 1] }

(***************************************************************************)
(* Permission resolution and authorization (app/auth.py).                  *)
(***************************************************************************)
\* find_one on a collection: the first matching document in insertion order.
First(docs) == CHOOSE d \in docs : \A e \in docs : d._id[2] <= e._id[2]

\* A variant that takes the scopes of a found identity from the registration
\* defaults and not from the permissions collection.
get_user_permissions_fixed(username) ==
    LET found == {u \in users : u.username = username} IN
    IF found = {}
    THEN [found |-> FALSE, user_id |-> NoId, permissions |-> {}]
    ELSE [found |-> TRUE, user_id |-> First(found)._id,
          permissions |-> {BASE_PERMISSIONS[i] : i \in 1..Len(BASE_PERMISSIONS)}]

get_user_permissions(username) ==
    LET found == {u \in users : u.username = username} IN
    IF found = {}
    THEN [found |-> FALSE, user_id |-> NoId, permissions |-> {}]
    ELSE [found |-> TRUE, user_id |-> First(found)._id,
          permissions |-> {g.scope : g \in {h \in permissions :
                                            h.user_id = First(found)._id}}]

credentials_exception ==
    [Response(401, "Could not validate credentials") EXCEPT !.hdr = "Bearer"]

\* A variant that tells the caller when the subject names no identity.
get_current_permission_data_leaky(token) ==
    LET payload == jwt_decode(token, SECRET_KEY, now)
        user_permissions == get_user_permissions(payload.sub)
        failed == [ok |-> FALSE, resp |-> credentials_exception,
                   user_id |-> NoId, permissions |-> {}]
    IN  IF ~payload.ok \/ ~payload.has_sub THEN failed
        ELSE IF ~user_permissions.found
        THEN [failed EXCEPT !.resp = Response(404, "user not found")]
        ELSE [ok |-> TRUE, resp |-> NoResponse,
              user_id |-> user_permissions.user_id,
              permissions |-> user_permissions.permissions]

get_current_permission_data(token) ==
    LET payload == jwt_decode(token, SECRET_KEY, now)
        user_permissions == get_user_permissions(payload.sub)
        failed == [ok |-> FALSE, resp |-> credentials_exception,
                   user_id |-> NoId, permissions |-> {}]
    IN  IF ~payload.ok \/ ~payload.has_sub THEN failed
        ELSE IF ~user_permissions.found THEN failed
        ELSE [ok |-> TRUE, resp |-> NoResponse,
              user_id |-> user_permissions.user_id,
              permissions |-> user_permissions.permissions]

permission_exception == Response(401, "User doesn't have necessary permissions")

\* A variant that lets a principal pass that holds any one required scope.
get_current_authorized_user_id_any(scopes, permission_data) ==
    IF /\ Len(scopes) > 0
       /\ \A i \in 1..Len(scopes) : scopes[i] \notin permission_data.permissions
    THEN [ok |-> FALSE, resp |-> [Response(401, "User doesn't have necessary permissions")
                                    EXCEPT !.hdr = ""], user_id |-> NoId]
    ELSE [ok |-> TRUE, resp |-> NoResponse, user_id |-> permission_data.user_id]

\* A variant that checks no scope.
get_current_authorized_user_id_unchecked(scopes, permission_data) ==
    [ok |-> TRUE, resp |-> NoResponse, user_id |-> permission_data.user_id]

\* The loop over security_scopes.scopes: the first scope the principal lacks
\* raises.
get_current_authorized_user_id(scopes, permission_data) ==
    IF \E i \in 1..Len(scopes) : scopes[i] \notin permission_data.permissions
    THEN [ok |-> FALSE, resp |-> permission_exception, user_id |-> NoId]
    ELSE [ok |-> TRUE, resp |-> NoResponse, user_id |-> permission_data.user_id]

\* A variant of the administrator's dependency that asks for scope me.
CurrentUserIdAdmin_me == <<"me">>

CurrentUserIdAdmin == <<"admin">>
CurrentUserIdMe == <<"me">>
CurrentUserIdShopper == <<"shopper">>

(***************************************************************************)
(* The request-handling coroutines.                                        *)
(*   pc      where the coroutine stands                                    *)
(*   op      the route being served                                        *)
(*   scopes  the scopes the route's dependency required                    *)
(*   token   the bearer token the request carries                          *)
(*   uid     the identity id returned by get_current_authorized_user_id    *)
(*   perms   the scope set of the PermissionData resolved for the request  *)
(*   target  the ObjectId the body works on                                *)
(*   item    the product id of a cart item request                         *)
(*   flag    CreateUserData.admin                                          *)
(*   form    the name and the password a login, registration or update     *)
(*           request carries                                               *)
(*   query   the query parameters of list_products                         *)
(*   resp    the answer, once pc = "done"                                  *)
(***************************************************************************)
\* An optional parameter: None, or the value given.
None == <<>>
Some(v) == <<v>>

Optional(values) == {None} \cup {Some(v) : v \in values}

NoQuery ==
    [sort |-> None, order |-> None, price_filter_op |-> None,
     price_filter_value |-> None]

Idle ==
    [pc |-> "idle", op |-> "", scopes |-> <<>>, token |-> NoToken, uid |-> NoId,
     perms |-> {}, target |-> NoId, item |-> NoId, flag |-> FALSE,
     form |-> <<"", "">>, query |-> NoQuery, resp |-> NoResponse]

Done(proc, op, target, resp) ==
    [proc EXCEPT !.pc = "done", !.op = op, !.target = target, !.resp = resp]

\* The event loop runs one coroutine at a time and sends an answer before it
\* resumes another coroutine: no step is taken while an answer is being sent.
Sending == \E q \in Procs : procs[q].pc = "done"
At(p, pc) == procs[p].pc = pc /\ ~Sending

Init ==
    /\ users = {}
    /\ permissions = {}
    /\ carts = {}
    /\ products = {}
    /\ usernameIndex = FALSE
    /\ pendingInserts = {}
    /\ nextOid = [users |-> 0, carts |-> 0, products |-> 0]
    /\ tokens = {}
    /\ now = 0
    /\ procs = [p \in Procs |-> Idle]

\* Identifiers a client may put in a path or a body.
UserIdStrs == {IdStr(Oid("users", n)) : n \in 1..MaxUsers} \cup {MalformedId}
CartIdStrs == {IdStr(Oid("carts", n)) : n \in 1..MaxCarts} \cup {MalformedId}
ProductIdStrs == {IdStr(Oid("products", n)) : n \in 1..(MaxProducts + 1)} \cup {MalformedId}

(***************************************************************************)
(* app/main.py                                                             *)
(***************************************************************************)
\* ensure_indexes starts create_index and does not await it: the index
\* appears at some later time, and not at all if the collection already
\* holds two documents with one username.
ensure_indexes ==
    /\ ~Sending
    /\ ~usernameIndex
    /\ \A u, v \in users : u.username = v.username => u = v
    /\ usernameIndex' = TRUE
    /\ UNCHANGED <<users, permissions, carts, products, pendingInserts, nextOid,
                   tokens, now, procs>>

login_for_access_token(p, username, password) ==
    /\ At(p, "idle")
    /\ LET found == {u \in users : u.username = username}
           access_token == create_access_token(First(found).username, now)
           issued == [tok |-> access_token, at |-> now, to |-> First(found)._id]
       IN  IF found = {} \/ ~verify_password(password, First(found).hashed_password)
           THEN /\ procs' = [procs EXCEPT ![p] =
                        [Done(@, "login", NoId,
                              [Response(401, "Incorrect username or password")
                                  EXCEPT !.hdr = "Bearer"])
                            EXCEPT !.form = <<username, password>>]]
                /\ UNCHANGED tokens
           ELSE /\ issued \in tokens \/ Cardinality(tokens) < MaxTokens
                /\ tokens' = tokens \cup {issued}
                /\ procs' = [procs EXCEPT ![p] =
                        [Done(@, "login", First(found)._id,
                              [Response(200, "") EXCEPT !.token = access_token])
                            EXCEPT !.form = <<username, password>>]]
    /\ UNCHANGED <<users, permissions, carts, products, usernameIndex,
                   pendingInserts, nextOid, now>>

(***************************************************************************)
(* The dependency chain of a protected route.                              *)
(***************************************************************************)
\* A variant that deletes the grants of a principal it denies.
Authenticate_revoking(p, token, scopes) ==
    /\ At(p, "idle")
    /\ LET permission_data == get_current_permission_data(token)
           authorized == get_current_authorized_user_id(scopes, permission_data)
       IN  /\ procs' = [procs EXCEPT ![p] =
                  IF ~permission_data.ok
                  THEN [Done(@, "", NoId, permission_data.resp) EXCEPT
                           !.scopes = scopes, !.token = token]
                  ELSE IF ~authorized.ok
                  THEN [Done(@, "", NoId, authorized.resp) EXCEPT
                           !.scopes = scopes, !.token = token,
                           !.uid = permission_data.user_id,
                           !.perms = permission_data.permissions]
                  ELSE [@ EXCEPT !.pc = "body", !.scopes = scopes, !.token = token,
                           !.uid = authorized.user_id,
                           !.perms = permission_data.permissions]]
           /\ permissions' =
                  IF permission_data.ok /\ ~authorized.ok
                  THEN {g \in permissions : g.user_id # permission_data.user_id}
                  ELSE permissions
    /\ UNCHANGED <<users, carts, products, usernameIndex,
                   pendingInserts, nextOid, tokens, now>>

Authenticate(p, token, scopes) ==
    /\ At(p, "idle")
    /\ LET permission_data == get_current_permission_data(token)
           authorized == get_current_authorized_user_id(scopes, permission_data)
       IN  procs' = [procs EXCEPT ![p] =
               IF ~permission_data.ok
               THEN [Done(@, "", NoId, permission_data.resp) EXCEPT
                        !.scopes = scopes, !.token = token]
               ELSE IF ~authorized.ok
               THEN [Done(@, "", NoId, authorized.resp) EXCEPT
                        !.scopes = scopes, !.token = token,
                        !.uid = permission_data.user_id,
                        !.perms = permission_data.permissions]
               ELSE [@ EXCEPT !.pc = "body", !.scopes = scopes, !.token = token,
                        !.uid = authorized.user_id,
                        !.perms = permission_data.permissions]]
    /\ UNCHANGED <<users, permissions, carts, products, usernameIndex,
                   pendingInserts, nextOid, tokens, now>>

\* The answer has been sent; the coroutine is free for the next request.
Return(p) ==
    /\ procs[p].pc = "done"
    /\ procs' = [procs EXCEPT ![p] = Idle]
    /\ UNCHANGED <<users, permissions, carts, products, usernameIndex,
                   pendingInserts, nextOid, tokens, now>>

Tick(d) ==
    /\ ~Sending
    /\ now + d <= MaxClock * ExpireTicks
    /\ now' = now + d
    /\ UNCHANGED <<users, permissions, carts, products, usernameIndex,
                   pendingInserts, nextOid, tokens, procs>>

(***************************************************************************)
(* app/routers/users.py                                                    *)
(***************************************************************************)
Body(p, scopes) == At(p, "body") /\ procs[p].scopes = scopes

\* Cart ids not yet handed out and not reserved by a registration under way.
CartIdsFree ==
    MaxCarts - nextOid.carts
        - Cardinality({q \in Procs : procs[q].pc \in {"cu_perms", "cu_cart"}})

\* create_permissions: insert_many is started and its future returned; the
\* caller awaits the coroutine, which never awaits the insert.
create_permissions(grants) == {grants}

create_base_permissions(user_id) ==
    create_permissions([i \in 1..Len(BASE_PERMISSIONS) |->
        [user_id |-> user_id, scope |-> BASE_PERMISSIONS[i]]])

create_admin_permissions(user_id) ==
    create_permissions([i \in 1..Len(ADMIN_PERMISSIONS) |->
        [user_id |-> user_id, scope |-> ADMIN_PERMISSIONS[i]]])

\* An insert_many under way writes its next document.
insert_many_step(batch) ==
    /\ ~Sending
    /\ batch \in pendingInserts
    /\ permissions' = permissions \cup {Head(batch)}
    /\ pendingInserts' = (pendingInserts \ {batch}) \cup
            (IF Len(batch) > 1 THEN {Tail(batch)} ELSE {})
    /\ UNCHANGED <<users, carts, products, usernameIndex, nextOid, tokens, now, procs>>

\* create_user up to the return of db.users.insert_one.
create_user(p, username, password, admin) ==
    /\ At(p, "idle")
    /\ IF usernameIndex /\ \E u \in users : u.username = username
       THEN /\ procs' = [procs EXCEPT ![p] =
                    [Done(@, "create_user", NoId,
                          Response(400, "username already exists"))
                        EXCEPT !.form = <<username, password>>]]
            /\ UNCHANGED <<users, nextOid>>
       ELSE /\ nextOid.users < MaxUsers
            /\ CartIdsFree > 0
            /\ LET inserted_id == Oid("users", nextOid.users + 1) IN
               /\ users' = users \cup
                      {[_id |-> inserted_id, username |-> username,
                        hashed_password |-> get_password_hash(password), name |-> ""]}
               /\ nextOid' = [nextOid EXCEPT !.users = @ + 1]
               /\ procs' = [procs EXCEPT ![p] =
                      [@ EXCEPT !.pc = "cu_perms", !.op = "create_user",
                                !.target = inserted_id, !.flag = admin,
                                !.form = <<username, password>>]]
    /\ UNCHANGED <<permissions, carts, products, usernameIndex, pendingInserts,
                   tokens, now>>

\* create_user from there to the return of db.users.find_one: both grant
\* inserts are started on the way.
create_user_permissions(p) ==
    /\ At(p, "cu_perms")
    /\ LET inserted_id == procs[p].target
           user == {u \in users : u._id = inserted_id}
       IN  /\ pendingInserts' = pendingInserts
                  \cup create_base_permissions(inserted_id)
                  \cup (IF procs[p].flag THEN create_admin_permissions(inserted_id)
                        ELSE {})
           /\ procs' = [procs EXCEPT ![p] =
                  [@ EXCEPT !.pc = "cu_cart",
                            !.resp = [NoResponse EXCEPT
                                !.users = {UserBody(u) : u \in user}]]]
    /\ UNCHANGED <<users, permissions, carts, products, usernameIndex, nextOid,
                   tokens, now>>

\* create_cart_in_db: insert_one, then find_one by the inserted id.
create_cart_in_db(user_id) ==
    [_id |-> Oid("carts", nextOid.carts + 1), user_id |-> user_id, items |-> <<>>]

\* create_user to its end: the cart, and the answer (the response model
\* rejects a user that find_one did not find).
create_user_cart(p) ==
    /\ At(p, "cu_cart")
    /\ LET cart == create_cart_in_db(procs[p].target) IN
       /\ carts' = carts \cup {cart}
       /\ nextOid' = [nextOid EXCEPT !.carts = @ + 1]
       /\ procs' = [procs EXCEPT ![p] =
              IF procs[p].resp.users = {}
              THEN Done(@, "create_user", procs[p].target,
                        Response(500, "Internal Server Error"))
              ELSE Done(@, "create_user", procs[p].target,
                        [Response(201, "") EXCEPT !.users = procs[p].resp.users,
                                                   !.cart = cart])]
    /\ UNCHANGED <<users, permissions, products, usernameIndex, pendingInserts,
                   tokens, now>>

\* The users of a page: skip and limit over the insertion order.
RECURSIVE InOrder(_)
InOrder(docs) ==
    IF docs = {} THEN <<>> ELSE <<First(docs)>> \o InOrder(docs \ {First(docs)})

Page(docs, skip, limit) ==
    LET all == InOrder(docs) IN
    {all[i] : i \in {j \in 1..Len(all) : j > skip /\ j <= skip + limit}}

list_users(p, skip, limit) ==
    /\ Body(p, CurrentUserIdAdmin)
    /\ procs' = [procs EXCEPT ![p] = Done(@, "list_users", NoId,
            [Response(200, "") EXCEPT
                !.users = {UserBody(u) : u \in Page(users, skip, limit)}])]
    /\ UNCHANGED <<users, permissions, carts, products, usernameIndex,
                   pendingInserts, nextOid, tokens, now>>

get_user_from_db(user_id) ==
    LET user == {u \in users : u._id = user_id} IN
    IF user # {}
    THEN [Response(200, "") EXCEPT !.users = {UserBody(u) : u \in user}]
    ELSE Response(404, "user not found")

get_current_user(p) ==
    /\ Body(p, CurrentUserIdMe)
    /\ procs' = [procs EXCEPT ![p] =
            Done(@, "get_current_user", procs[p].uid, get_user_from_db(procs[p].uid))]
    /\ UNCHANGED <<users, permissions, carts, products, usernameIndex,
                   pendingInserts, nextOid, tokens, now>>

get_user(p, user_id) ==
    /\ Body(p, CurrentUserIdAdmin)
    /\ LET parsed_user_id == parse_object_id(user_id) IN
       procs' = [procs EXCEPT ![p] =
            IF ~parsed_user_id.ok
            THEN Done(@, "get_user", NoId,
                      Response(parsed_user_id.status, parsed_user_id.detail))
            ELSE Done(@, "get_user", parsed_user_id.oid,
                      get_user_from_db(parsed_user_id.oid))]
    /\ UNCHANGED <<users, permissions, carts, products, usernameIndex,
                   pendingInserts, nextOid, tokens, now>>

\* delete_user_from_db up to the return of db.carts.delete_many.
delete_user_from_db_carts(p, op, user_id) ==
    /\ carts' = {c \in carts : c.user_id # user_id}
    /\ procs' = [procs EXCEPT ![p] =
            [@ EXCEPT !.pc = "du_user", !.op = op, !.target = user_id]]
    /\ UNCHANGED <<users, permissions, products, usernameIndex, pendingInserts,
                   nextOid, tokens, now>>

\* A variant that deletes the grants of the identity with its document.
delete_user_from_db_grants(p) ==
    /\ At(p, "du_user")
    /\ LET user_id == procs[p].target
           deleted == {u \in users : u._id = user_id}
       IN  /\ users' = users \ deleted
           /\ permissions' = {g \in permissions : g.user_id # user_id}
           /\ procs' = [procs EXCEPT ![p] =
                  IF Cardinality(deleted) = 1
                  THEN Done(@, procs[p].op, user_id, Response(204, ""))
                  ELSE Done(@, procs[p].op, user_id, Response(404, "user not found"))]
    /\ UNCHANGED <<carts, products, usernameIndex, pendingInserts,
                   nextOid, tokens, now>>

\* delete_user_from_db from there to its end: db.users.delete_one.
delete_user_from_db(p) ==
    /\ At(p, "du_user")
    /\ LET user_id == procs[p].target
           deleted == {u \in users : u._id = user_id}
       IN  /\ users' = users \ deleted
           /\ procs' = [procs EXCEPT ![p] =
                  IF Cardinality(deleted) = 1
                  THEN Done(@, procs[p].op, user_id, Response(204, ""))
                  ELSE Done(@, procs[p].op, user_id, Response(404, "user not found"))]
    /\ UNCHANGED <<permissions, carts, products, usernameIndex, pendingInserts,
                   nextOid, tokens, now>>

delete_current_user(p) ==
    /\ Body(p, CurrentUserIdMe)
    /\ delete_user_from_db_carts(p, "delete_current_user", procs[p].uid)

delete_user(p, user_id) ==
    /\ Body(p, CurrentUserIdAdmin)
    /\ LET parsed_user_id == parse_object_id(user_id) IN
       IF ~parsed_user_id.ok
       THEN /\ procs' = [procs EXCEPT ![p] = Done(@, "delete_user", NoId,
                    Response(parsed_user_id.status, parsed_user_id.detail))]
            /\ UNCHANGED <<users, permissions, carts, products, usernameIndex,
                           pendingInserts, nextOid, tokens, now>>
       ELSE delete_user_from_db_carts(p, "delete_user", parsed_user_id.oid)

\* UpdateUserData: a field left out is "" (None) and is not written.
update_user_in_db(p, op, user_id, name, password) ==
    LET updated == {IF u._id # user_id THEN u
                    ELSE [u EXCEPT
                            !.name = IF name # "" THEN name ELSE @,
                            !.hashed_password =
                                IF password # "" THEN get_password_hash(password)
                                ELSE @] : u \in users}
        db_user == {u \in updated : u._id = user_id}
    IN  /\ users' = updated
        /\ procs' = [procs EXCEPT ![p] =
               [IF db_user # {}
                THEN Done(@, op, user_id,
                          [Response(200, "") EXCEPT
                             !.users = {UserBody(u) : u \in db_user}])
                ELSE Done(@, op, user_id, Response(404, "user not found"))
                   EXCEPT !.form = <<name, password>>]]
        /\ UNCHANGED <<permissions, carts, products, usernameIndex, pendingInserts,
                       nextOid, tokens, now>>

patch_user_me(p, name, password) ==
    /\ Body(p, CurrentUserIdMe)
    /\ update_user_in_db(p, "patch_user_me", procs[p].uid, name, password)

patch_user(p, user_id, name, password) ==
    /\ Body(p, CurrentUserIdAdmin)
    /\ LET parsed_user_id == parse_object_id(user_id) IN
       IF ~parsed_user_id.ok
       THEN /\ procs' = [procs EXCEPT ![p] = Done(@, "patch_user", NoId,
                    Response(parsed_user_id.status, parsed_user_id.detail))]
            /\ UNCHANGED <<users, permissions, carts, products, usernameIndex,
                           pendingInserts, nextOid, tokens, now>>
       ELSE update_user_in_db(p, "patch_user", parsed_user_id.oid, name, password)

(***************************************************************************)
(* app/routers/products.py                                                 *)
(***************************************************************************)
\* The answer to an identifier that parse_object_id rejects.
BadId(p, op, parsed) ==
    /\ procs' = [procs EXCEPT ![p] =
            Done(@, op, NoId, Response(parsed.status, parsed.detail))]
    /\ UNCHANGED <<users, permissions, carts, products, usernameIndex,
                   pendingInserts, nextOid, tokens, now>>

Prices == {5}
NewPrices == {5, 7}
ProductNames == {"apple", "pear"}

create_product(p, name, price) ==
    /\ Body(p, CurrentUserIdAdmin)
    /\ nextOid.products < MaxProducts
    /\ LET product == [_id |-> Oid("products", nextOid.products + 1),
                       name |-> name, price |-> price]
       IN  /\ products' = products \cup {product}
           /\ nextOid' = [nextOid EXCEPT !.products = @ + 1]
           /\ procs' = [procs EXCEPT ![p] =
                  Done(@, "create_product", product._id,
                       [Response(201, "") EXCEPT !.products = <<product>>])]
    /\ UNCHANGED <<users, permissions, carts, usernameIndex, pendingInserts,
                   tokens, now>>

ProductNotFound == Response(404, "Product not found")

get_product_from_db(product_id) ==
    LET product == {d \in products : d._id = product_id} IN
    IF product # {}
    THEN [Response(200, "") EXCEPT !.products = <<First(product)>>]
    ELSE ProductNotFound

\* The values of the listing parameters.
SortingFields == {"name", "price"}
SortingOrder == {"asc", "desc"}
PriceFilterOp == {"gt", "lt", "gte", "lte"}
PriceFilterValues == {-1, 0, 5}

\* Python truth of an optional parameter: None is false, a member of an Enum
\* is true, a float is true unless it is zero.
TruthyEnum(param) == param # None
TruthyFloat(param) == param # None /\ param[1] # 0

\* build_query and the match of a document against the query ({} is None).
build_query(price_filter_op, price_filter_value) ==
    Some([op |-> price_filter_op[1], value |-> price_filter_value[1]])

Matches(query, product) ==
    \/ query = None
    \/ query # None /\ query[1].op = "gt" /\ product.price > query[1].value
    \/ query # None /\ query[1].op = "lt" /\ product.price < query[1].value
    \/ query # None /\ query[1].op = "gte" /\ product.price >= query[1].value
    \/ query # None /\ query[1].op = "lte" /\ product.price <= query[1].value

\* cursor.sort: names compare by their place in the alphabet; documents with
\* equal keys stay in insertion order.
NameRank(name) == IF name = "apple" THEN 1 ELSE 2

SortKey(product, field, direction) ==
    direction * (IF field = "price" THEN product.price ELSE NameRank(product.name))

RECURSIVE Sorted(_, _, _)
Sorted(docs, field, direction) ==
    IF docs = {} THEN <<>>
    ELSE LET least == {d \in docs : \A e \in docs :
                        SortKey(d, field, direction) <= SortKey(e, field, direction)}
             next == First(least)
         IN  <<next>> \o Sorted(docs \ {next}, field, direction)

\* cursor.skip(skip).limit(limit)
SkipLimit(all, skip, limit) ==
    SubSeq(all, skip + 1, IF skip + limit < Len(all) THEN skip + limit ELSE Len(all))

list_products(p, skip, limit, sort, order, price_filter_op, price_filter_value) ==
    /\ At(p, "idle")
    /\ LET query == IF TruthyEnum(price_filter_op) /\ TruthyFloat(price_filter_value)
                    THEN build_query(price_filter_op, price_filter_value)
                    ELSE None
           found == {d \in products : Matches(query, d)}
           cursor == IF TruthyEnum(sort) /\ TruthyEnum(order)
                     THEN Sorted(found, sort[1], IF order[1] = "asc" THEN 1 ELSE -1)
                     ELSE InOrder(found)
           resp ==
                IF (TruthyEnum(sort) \/ TruthyEnum(order))
                    /\ ~(TruthyEnum(sort) /\ TruthyEnum(order))
                THEN Response(400, "Invalid combination of sort and order parameters")
                ELSE IF (TruthyEnum(price_filter_op) \/ TruthyFloat(price_filter_value))
                    /\ ~(TruthyEnum(price_filter_op) /\ TruthyFloat(price_filter_value))
                THEN Response(400,
                    "Invalid combination of price_filter_op and price_filter_value parameters")
                ELSE [Response(200, "") EXCEPT
                        !.products = SkipLimit(cursor, skip, limit)]
       IN  procs' = [procs EXCEPT ![p] =
                [Done(@, "list_products", NoId, resp) EXCEPT
                    !.query = [sort |-> sort, order |-> order,
                               price_filter_op |-> price_filter_op,
                               price_filter_value |-> price_filter_value]]]
    /\ UNCHANGED <<users, permissions, carts, products, usernameIndex,
                   pendingInserts, nextOid, tokens, now>>

get_product(p, product_id) ==
    /\ At(p, "idle")
    /\ LET parsed_product_id == parse_object_id(product_id) IN
       procs' = [procs EXCEPT ![p] =
            IF ~parsed_product_id.ok
            THEN Done(@, "get_product", NoId,
                      Response(parsed_product_id.status, parsed_product_id.detail))
            ELSE Done(@, "get_product", parsed_product_id.oid,
                      get_product_from_db(parsed_product_id.oid))]
    /\ UNCHANGED <<users, permissions, carts, products, usernameIndex,
                   pendingInserts, nextOid, tokens, now>>

\* find_one_and_update with $set on the product of the given id.
update_product(product_id, name, price) ==
    {IF d._id # product_id THEN d
     ELSE [d EXCEPT !.name = IF name # None THEN name[1] ELSE @,
                    !.price = IF price # None THEN price[1] ELSE @] : d \in products}

\* The end of patch_product and put_product: the product as stored, or 404.
product_answer(p, op, product_id, stored) ==
    LET db_product == {d \in stored : d._id = product_id} IN
    procs' = [procs EXCEPT ![p] =
        IF db_product # {}
        THEN Done(@, op, product_id,
                  [Response(200, "") EXCEPT !.products = <<First(db_product)>>])
        ELSE Done(@, op, product_id, ProductNotFound)]

\* ProductUpdate: a field left out is None and is not written.
patch_product(p, product_id, name, price) ==
    /\ Body(p, CurrentUserIdAdmin)
    /\ LET parsed_product_id == parse_object_id(product_id) IN
       IF ~parsed_product_id.ok THEN BadId(p, "patch_product", parsed_product_id)
       ELSE /\ products' = update_product(parsed_product_id.oid, name, price)
            /\ product_answer(p, "patch_product", parsed_product_id.oid, products')
            /\ UNCHANGED <<users, permissions, carts, usernameIndex,
                           pendingInserts, nextOid, tokens, now>>

\* Product: every field is written (there is no upsert).
put_product(p, product_id, name, price) ==
    /\ Body(p, CurrentUserIdAdmin)
    /\ LET parsed_product_id == parse_object_id(product_id) IN
       IF ~parsed_product_id.ok THEN BadId(p, "put_product", parsed_product_id)
       ELSE /\ products' = update_product(parsed_product_id.oid, Some(name), Some(price))
            /\ product_answer(p, "put_product", parsed_product_id.oid, products')
            /\ UNCHANGED <<users, permissions, carts, usernameIndex,
                           pendingInserts, nextOid, tokens, now>>

delete_product(p, product_id) ==
    /\ Body(p, CurrentUserIdAdmin)
    /\ LET parsed_product_id == parse_object_id(product_id)
           deleted == {d \in products : d._id = parsed_product_id.oid}
       IN  IF ~parsed_product_id.ok THEN BadId(p, "delete_product", parsed_product_id)
           ELSE /\ products' = products \ deleted
                /\ procs' = [procs EXCEPT ![p] =
                        IF Cardinality(deleted) = 1
                        THEN Done(@, "delete_product", parsed_product_id.oid,
                                  Response(204, ""))
                        ELSE Done(@, "delete_product", parsed_product_id.oid,
                                  ProductNotFound)]
                /\ UNCHANGED <<users, permissions, carts, usernameIndex,
                               pendingInserts, nextOid, tokens, now>>

(***************************************************************************)
(* app/routers/carts.py                                                    *)
(***************************************************************************)
\* The 404 of get_cart_from_db and delete_cart names the cart id and the
\* caller, and nothing of the store.
CartNotFound(user_id, cart_id) ==
    [Response(404, "Cart not found for user") EXCEPT !.about = <<cart_id, user_id>>]

\* A variant that looks the cart up by its id alone.
get_cart_from_db_unfiltered(coll, user_id, cart_id) ==
    LET cart == {c \in coll : c._id = cart_id} IN
    IF cart # {}
    THEN [Response(200, "") EXCEPT !.cart = First(cart)]
    ELSE CartNotFound(user_id, cart_id)

\* A variant that tells a non-owner that the cart exists.
get_cart_from_db_forbidden(coll, user_id, cart_id) ==
    LET cart == {c \in coll : c._id = cart_id /\ c.user_id = user_id} IN
    IF cart # {}
    THEN [Response(200, "") EXCEPT !.cart = First(cart)]
    ELSE IF \E c \in coll : c._id = cart_id
    THEN Response(403, "Forbidden")
    ELSE CartNotFound(user_id, cart_id)

\* get_cart_from_db against a carts collection.
get_cart_from_db(coll, user_id, cart_id) ==
    LET cart == {c \in coll : c._id = cart_id /\ c.user_id = user_id} IN
    IF cart # {}
    THEN [Response(200, "") EXCEPT !.cart = First(cart)]
    ELSE CartNotFound(user_id, cart_id)

\* $push: the value goes to the end of the array.
Push(product_id, items) == Append(items, product_id)

\* A variant of $pull that takes out the first element equal to the value.
RECURSIVE Pull_first(_, _)
Pull_first(product_id, items) ==
    IF items = <<>> THEN <<>>
    ELSE IF Head(items) = product_id THEN Tail(items)
    ELSE <<Head(items)>> \o Pull_first(product_id, Tail(items))

\* $pull: every element equal to the value goes.
RECURSIVE Pull(_, _)
Pull(product_id, items) ==
    IF items = <<>> THEN <<>>
    ELSE IF Head(items) = product_id THEN Pull(product_id, Tail(items))
    ELSE <<Head(items)>> \o Pull(product_id, Tail(items))

\* The update documents of the cart routes, applied to the items of a cart.
UpdateItems(update, items) ==
    CASE update.op = "$push" -> Push(update.value, items)
      [] update.op = "$pull" -> Pull(update.value, items)
      [] update.op = "$set" -> <<>>

\* update_one on carts with the filter {_id, user_id}.
update_one_cart(user_id, cart_id, update) ==
    {IF c._id = cart_id /\ c.user_id = user_id
     THEN [c EXCEPT !.items = UpdateItems(update, c.items)] ELSE c : c \in carts}

create_cart(p) ==
    /\ Body(p, CurrentUserIdMe)
    /\ CartIdsFree > 0
    /\ LET cart == create_cart_in_db(procs[p].uid) IN
       /\ carts' = carts \cup {cart}
       /\ nextOid' = [nextOid EXCEPT !.carts = @ + 1]
       /\ procs' = [procs EXCEPT ![p] =
              Done(@, "create_cart", cart._id, [Response(201, "") EXCEPT !.cart = cart])]
    /\ UNCHANGED <<users, permissions, products, usernameIndex, pendingInserts,
                   tokens, now>>

get_cart(p, cart_id) ==
    /\ Body(p, CurrentUserIdMe)
    /\ LET parsed_cart_id == parse_object_id(cart_id) IN
       IF ~parsed_cart_id.ok THEN BadId(p, "get_cart", parsed_cart_id)
       ELSE /\ procs' = [procs EXCEPT ![p] = Done(@, "get_cart", parsed_cart_id.oid,
                    get_cart_from_db(carts, procs[p].uid, parsed_cart_id.oid))]
            /\ UNCHANGED <<users, permissions, carts, products, usernameIndex,
                           pendingInserts, nextOid, tokens, now>>

add_item_to_cart(p, cart_id, product_id) ==
    /\ Body(p, CurrentUserIdMe)
    /\ LET parsed_cart_id == parse_object_id(cart_id)
           parsed_product_id == parse_object_id(product_id)
           product == get_product_from_db(parsed_product_id.oid)
           update == [op |-> "$push", value |-> parsed_product_id.oid]
       IN  IF ~parsed_cart_id.ok THEN BadId(p, "add_item_to_cart", parsed_cart_id)
           ELSE IF ~parsed_product_id.ok
           THEN BadId(p, "add_item_to_cart", parsed_product_id)
           ELSE IF product.status # 200
           THEN /\ procs' = [procs EXCEPT ![p] =
                        [Done(@, "add_item_to_cart", parsed_cart_id.oid, product)
                            EXCEPT !.item = parsed_product_id.oid]]
                /\ UNCHANGED <<users, permissions, carts, products, usernameIndex,
                               pendingInserts, nextOid, tokens, now>>
           ELSE /\ \A c \in carts : c._id = parsed_cart_id.oid => Len(c.items) < MaxItems
                /\ carts' = update_one_cart(procs[p].uid, parsed_cart_id.oid, update)
                /\ procs' = [procs EXCEPT ![p] =
                        [Done(@, "add_item_to_cart", parsed_cart_id.oid,
                              get_cart_from_db(carts', procs[p].uid, parsed_cart_id.oid))
                            EXCEPT !.item = parsed_product_id.oid]]
                /\ UNCHANGED <<users, permissions, products, usernameIndex,
                               pendingInserts, nextOid, tokens, now>>

remove_item_from_cart(p, cart_id, product_id) ==
    /\ Body(p, CurrentUserIdMe)
    /\ LET parsed_cart_id == parse_object_id(cart_id)
           parsed_product_id == parse_object_id(product_id)
           cart == get_cart_from_db(carts, procs[p].uid, parsed_cart_id.oid)
           update == [op |-> "$pull", value |-> parsed_product_id.oid]
       IN  IF ~parsed_cart_id.ok THEN BadId(p, "remove_item_from_cart", parsed_cart_id)
           ELSE IF ~parsed_product_id.ok
           THEN BadId(p, "remove_item_from_cart", parsed_product_id)
           ELSE IF cart.status # 200
           THEN /\ procs' = [procs EXCEPT ![p] =
                        [Done(@, "remove_item_from_cart", parsed_cart_id.oid, cart)
                            EXCEPT !.item = parsed_product_id.oid]]
                /\ UNCHANGED <<users, permissions, carts, products, usernameIndex,
                               pendingInserts, nextOid, tokens, now>>
           ELSE IF \A i \in 1..Len(cart.cart.items) :
                        cart.cart.items[i] # parsed_product_id.oid
           THEN /\ procs' = [procs EXCEPT ![p] =
                        [Done(@, "remove_item_from_cart", parsed_cart_id.oid,
                              Response(400, "No item with product id in cart"))
                            EXCEPT !.item = parsed_product_id.oid]]
                /\ UNCHANGED <<users, permissions, carts, products, usernameIndex,
                               pendingInserts, nextOid, tokens, now>>
           ELSE /\ carts' = update_one_cart(procs[p].uid, parsed_cart_id.oid, update)
                /\ procs' = [procs EXCEPT ![p] =
                        [Done(@, "remove_item_from_cart", parsed_cart_id.oid,
                              get_cart_from_db(carts', procs[p].uid, parsed_cart_id.oid))
                            EXCEPT !.item = parsed_product_id.oid]]
                /\ UNCHANGED <<users, permissions, products, usernameIndex,
                               pendingInserts, nextOid, tokens, now>>

clear_cart(p, cart_id) ==
    /\ Body(p, CurrentUserIdMe)
    /\ LET parsed_cart_id == parse_object_id(cart_id) IN
       IF ~parsed_cart_id.ok THEN BadId(p, "clear_cart", parsed_cart_id)
       ELSE /\ carts' = update_one_cart(procs[p].uid, parsed_cart_id.oid,
                                    [op |-> "$set", value |-> NoId])
            /\ procs' = [procs EXCEPT ![p] = Done(@, "clear_cart", parsed_cart_id.oid,
                    get_cart_from_db(carts', procs[p].uid, parsed_cart_id.oid))]
            /\ UNCHANGED <<users, permissions, products, usernameIndex,
                           pendingInserts, nextOid, tokens, now>>

delete_cart(p, cart_id) ==
    /\ Body(p, CurrentUserIdMe)
    /\ LET parsed_cart_id == parse_object_id(cart_id)
           deleted == {c \in carts : c._id = parsed_cart_id.oid
                                      /\ c.user_id = procs[p].uid}
       IN  IF ~parsed_cart_id.ok THEN BadId(p, "delete_cart", parsed_cart_id)
           ELSE /\ carts' = carts \ deleted
                /\ procs' = [procs EXCEPT ![p] =
                        IF Cardinality(deleted) = 1
                        THEN Done(@, "delete_cart", parsed_cart_id.oid, Response(204, ""))
                        ELSE Done(@, "delete_cart", parsed_cart_id.oid,
                                  CartNotFound(procs[p].uid, parsed_cart_id.oid))]
                /\ UNCHANGED <<users, permissions, products, usernameIndex,
                               pendingInserts, nextOid, tokens, now>>

(***************************************************************************)
(* The program: requests arrive, are authorized and served; the store      *)
(* completes the operations started and not awaited; time passes.          *)
(***************************************************************************)
Next ==
    \/ ensure_indexes
    \/ \E batch \in pendingInserts : insert_many_step(batch)
    \/ Tick(ExpireTicks)
    \/ \E p \in Procs :
        \/ Return(p)
        \/ \E username \in Usernames, password \in Passwords :
                login_for_access_token(p, username, password)
        \/ \E token \in IssuedTokens \cup ForgedTokens,
              scopes \in {CurrentUserIdMe, CurrentUserIdAdmin} :
                Authenticate(p, token, scopes)
        \/ \E username \in Usernames, password \in Passwords, admin \in BOOLEAN :
                create_user(p, username, password, admin)
        \/ create_user_permissions(p)
        \/ create_user_cart(p)
        \/ \E skip \in {0, 1}, limit \in {1, 100} : list_users(p, skip, limit)
        \/ get_current_user(p)
        \/ \E user_id \in UserIdStrs : get_user(p, user_id)
        \/ delete_current_user(p)
        \/ \E user_id \in UserIdStrs : delete_user(p, user_id)
        \/ delete_user_from_db(p)
        \/ \E name \in Names \cup {""}, password \in Passwords \cup {""} :
                patch_user_me(p, name, password)
        \/ \E user_id \in UserIdStrs, name \in Names \cup {""},
              password \in Passwords \cup {""} :
                patch_user(p, user_id, name, password)
        \/ \E name \in ProductNames, price \in Prices : create_product(p, name, price)
        \/ \E skip \in {0, 1}, limit \in {1, 100},
              sort \in Optional(SortingFields), order \in Optional(SortingOrder),
              price_filter_op \in Optional(PriceFilterOp),
              price_filter_value \in Optional(PriceFilterValues) :
                list_products(p, skip, limit, sort, order, price_filter_op,
                              price_filter_value)
        \/ \E product_id \in ProductIdStrs : get_product(p, product_id)
        \/ \E product_id \in ProductIdStrs, name \in Optional(ProductNames),
              price \in Optional(NewPrices) :
                patch_product(p, product_id, name, price)
        \/ \E product_id \in ProductIdStrs, name \in ProductNames,
              price \in NewPrices :
                put_product(p, product_id, name, price)
        \/ \E product_id \in ProductIdStrs : delete_product(p, product_id)
        \/ create_cart(p)
        \/ \E cart_id \in CartIdStrs : get_cart(p, cart_id)
        \/ \E cart_id \in CartIdStrs, product_id \in ProductIdStrs :
                add_item_to_cart(p, cart_id, product_id)
        \/ \E cart_id \in CartIdStrs, product_id \in ProductIdStrs :
                remove_item_from_cart(p, cart_id, product_id)
        \/ \E cart_id \in CartIdStrs : clear_cart(p, cart_id)
        \/ \E cart_id \in CartIdStrs : delete_cart(p, cart_id)

Spec == Init /\ [][Next]_vars

(***************************************************************************)
(* Parts of the program, each checked with every interleaving of its own   *)
(* steps.  InitServing is Init after ensure_indexes; InitRegistered is the *)
(* state after alice has registered as an administrator and bob as a       *)
(* shopper and all their grants are stored (SpecUsers reaches it).         *)
(***************************************************************************)
InitServing ==
    /\ users = {}
    /\ permissions = {}
    /\ carts = {}
    /\ products = {}
    /\ usernameIndex = TRUE
    /\ pendingInserts = {}
    /\ nextOid = [users |-> 0, carts |-> 0, products |-> 0]
    /\ tokens = {}
    /\ now = 0
    /\ procs = [p \in Procs |-> Idle]

Alice == Oid("users", 1)
Bob == Oid("users", 2)

InitRegistered ==
    /\ users = {[_id |-> Alice, username |-> "alice",
                 hashed_password |-> get_password_hash("pw1"), name |-> ""],
                [_id |-> Bob, username |-> "bob",
                 hashed_password |-> get_password_hash("pw1"), name |-> ""]}
    /\ permissions = {[user_id |-> Alice, scope |-> "shopper"],
                      [user_id |-> Alice, scope |-> "me"],
                      [user_id |-> Alice, scope |-> "admin"],
                      [user_id |-> Bob, scope |-> "shopper"],
                      [user_id |-> Bob, scope |-> "me"]}
    /\ carts = {[_id |-> Oid("carts", 1), user_id |-> Alice, items |-> <<>>],
                [_id |-> Oid("carts", 2), user_id |-> Bob, items |-> <<>>]}
    /\ products = {}
    /\ usernameIndex = TRUE
    /\ pendingInserts = {}
    /\ nextOid = [users |-> 2, carts |-> 2, products |-> 0]
    /\ tokens = {}
    /\ now = 0
    /\ procs = [p \in Procs |-> Idle]

\* Registration, login and the user routes.
NextUsers ==
    \/ \E batch \in pendingInserts : insert_many_step(batch)
    \/ \E p \in Procs :
        \/ Return(p)
        \/ \E username \in Usernames : login_for_access_token(p, username, "pw1")
        \/ \E token \in IssuedTokens \cup ForgedTokens,
              scopes \in {CurrentUserIdMe, CurrentUserIdAdmin} :
                Authenticate(p, token, scopes)
        \/ \E username \in Usernames, admin \in BOOLEAN :
                create_user(p, username, "pw1", admin)
        \/ create_user_permissions(p)
        \/ create_user_cart(p)
        \/ \E skip \in {0, 1}, limit \in {1, 100} : list_users(p, skip, limit)
        \/ get_current_user(p)
        \/ \E user_id \in UserIdStrs : get_user(p, user_id)
        \/ delete_current_user(p)
        \/ \E user_id \in UserIdStrs : delete_user(p, user_id)
        \/ delete_user_from_db(p)
        \/ \E name \in Names : patch_user_me(p, name, "")
        \/ \E user_id \in UserIdStrs, name \in Names : patch_user(p, user_id, name, "")

SpecUsers == InitServing /\ [][NextUsers]_vars

\* Registration, login, account deletion and create_cart.
NextCascade ==
    \/ \E batch \in pendingInserts : insert_many_step(batch)
    \/ \E p \in Procs :
        \/ Return(p)
        \/ \E username \in Usernames : login_for_access_token(p, username, "pw1")
        \/ \E token \in IssuedTokens \cup ForgedTokens,
              scopes \in {CurrentUserIdMe, CurrentUserIdAdmin} :
                Authenticate(p, token, scopes)
        \/ \E username \in Usernames, admin \in BOOLEAN :
                create_user(p, username, "pw1", admin)
        \/ create_user_permissions(p)
        \/ create_user_cart(p)
        \/ delete_current_user(p)
        \/ \E user_id \in UserIdStrs : delete_user(p, user_id)
        \/ delete_user_from_db(p)
        \/ create_cart(p)

SpecCascade == InitServing /\ [][NextCascade]_vars

\* Login, create_product and the cart routes.
NextCarts ==
    \E p \in Procs :
        \/ Return(p)
        \/ \E username \in Usernames : login_for_access_token(p, username, "pw1")
        \/ \E token \in IssuedTokens \cup ForgedTokens,
              scopes \in {CurrentUserIdMe, CurrentUserIdAdmin} :
                Authenticate(p, token, scopes)
        \/ \E price \in Prices : create_product(p, "apple", price)
        \/ create_cart(p)
        \/ \E cart_id \in CartIdStrs : get_cart(p, cart_id)
        \/ \E cart_id \in CartIdStrs, product_id \in ProductIdStrs :
                add_item_to_cart(p, cart_id, product_id)
        \/ \E cart_id \in CartIdStrs, product_id \in ProductIdStrs :
                remove_item_from_cart(p, cart_id, product_id)
        \/ \E cart_id \in CartIdStrs : clear_cart(p, cart_id)
        \/ \E cart_id \in CartIdStrs : delete_cart(p, cart_id)

SpecCarts == InitRegistered /\ [][NextCarts]_vars

\* The token codec and the dependency chain against the clock: login, the
\* passing of time, account deletion and requests with every kind of token.
\* The clock is sampled around the whole seconds at the start and at the end
\* of a token's lifetime.
ClockSteps ==
    IF now % ExpireTicks < TicksPerSecond THEN {1, ExpireTicks - 1}
    ELSE {ExpireTicks - 1}

NextToken ==
    \/ \E d \in ClockSteps : Tick(d)
    \/ \E p \in Procs :
        \/ Return(p)
        \/ \E username \in Usernames : login_for_access_token(p, username, "pw1")
        \/ \E token \in IssuedTokens \cup ForgedTokens,
              scopes \in {CurrentUserIdMe, CurrentUserIdAdmin} :
                Authenticate(p, token, scopes)
        \/ delete_current_user(p)
        \/ delete_user_from_db(p)

SpecToken == InitRegistered /\ [][NextToken]_vars

\* The authorizer as a function of the principal and the required scopes:
\* the grants of alice and bob are at any stage of their insertion, and a
\* route may require any list of scopes.
MaxScopes == 2

ScopeLists ==
    UNION {[1..n -> Scopes] : n \in 0..MaxScopes}

GrantStages(user_id) ==
    {base \cup admin :
        base \in {{[user_id |-> user_id, scope |-> BASE_PERMISSIONS[i]] : i \in 1..n}
                    : n \in 0..Len(BASE_PERMISSIONS)},
        admin \in {{[user_id |-> user_id, scope |-> ADMIN_PERMISSIONS[i]] : i \in 1..n}
                    : n \in 0..Len(ADMIN_PERMISSIONS)}}

InitGranted ==
    /\ users = {[_id |-> Alice, username |-> "alice",
                 hashed_password |-> get_password_hash("pw1"), name |-> ""],
                [_id |-> Bob, username |-> "bob",
                 hashed_password |-> get_password_hash("pw1"), name |-> ""]}
    /\ \E a \in GrantStages(Alice), b \in GrantStages(Bob) : permissions = a \cup b
    /\ carts = {[_id |-> Oid("carts", 1), user_id |-> Alice, items |-> <<>>],
                [_id |-> Oid("carts", 2), user_id |-> Bob, items |-> <<>>]}
    /\ products = {}
    /\ usernameIndex = TRUE
    /\ pendingInserts = {}
    /\ nextOid = [users |-> 2, carts |-> 2, products |-> 0]
    /\ tokens = {[tok |-> create_access_token("alice", 0), at |-> 0, to |-> Alice],
                 [tok |-> create_access_token("bob", 0), at |-> 0, to |-> Bob]}
    /\ now = 0
    /\ procs = [p \in Procs |-> Idle]

NextAuthz ==
    \E p \in Procs :
        \/ Return(p)
        \/ \E token \in IssuedTokens \cup ForgedTokens, scopes \in ScopeLists :
                Authenticate(p, token, scopes)

SpecAuthz == InitGranted /\ [][NextAuthz]_vars

\* The store's operator deletes a grant document: no route of the program
\* does, and the specification asks what the next request then sees.
revoke_grant(grant) ==
    /\ ~Sending
    /\ grant \in permissions
    /\ permissions' = permissions \ {grant}
    /\ UNCHANGED <<users, carts, products, usernameIndex, pendingInserts, nextOid,
                   tokens, now, procs>>

NextRevoke ==
    \/ \E grant \in permissions : revoke_grant(grant)
    \/ \E p \in Procs :
        \/ Return(p)
        \/ \E username \in Usernames : login_for_access_token(p, username, "pw1")
        \/ \E token \in IssuedTokens \cup ForgedTokens,
              scopes \in {CurrentUserIdMe, CurrentUserIdAdmin, CurrentUserIdShopper} :
                Authenticate(p, token, scopes)

SpecRevoke == InitRegistered /\ [][NextRevoke]_vars

\* Login against passwords that change: registration with the first
\* password, login with either password, and password updates by the
\* account's owner.
NextLogin ==
    \/ \E batch \in pendingInserts : insert_many_step(batch)
    \/ \E p \in Procs :
        \/ Return(p)
        \/ \E username \in Usernames, password \in Passwords :
                login_for_access_token(p, username, password)
        \/ \E token \in IssuedTokens : Authenticate(p, token, CurrentUserIdMe)
        \/ \E username \in Usernames : create_user(p, username, "pw1", FALSE)
        \/ create_user_permissions(p)
        \/ create_user_cart(p)
        \/ \E password \in Passwords : patch_user_me(p, "", password)

SpecLogin == InitServing /\ [][NextLogin]_vars

\* The program from its start: the index build that ensure_indexes started
\* completes at some time, while registrations and logins are served.
NextStartup ==
    \/ ensure_indexes
    \/ \E batch \in pendingInserts : insert_many_step(batch)
    \/ \E p \in Procs :
        \/ Return(p)
        \/ \E username \in Usernames : login_for_access_token(p, username, "pw1")
        \/ \E username \in Usernames : create_user(p, username, "pw1", FALSE)
        \/ create_user_permissions(p)
        \/ create_user_cart(p)

SpecStartup == Init /\ [][NextStartup]_vars

\* The public product routes over a stocked catalogue.
InitStocked ==
    /\ users = {}
    /\ permissions = {}
    /\ carts = {}
    /\ products = {[_id |-> Oid("products", 1), name |-> "pear", price |-> 0],
                   [_id |-> Oid("products", 2), name |-> "apple", price |-> 5]}
    /\ usernameIndex = TRUE
    /\ pendingInserts = {}
    /\ nextOid = [users |-> 0, carts |-> 0, products |-> 2]
    /\ tokens = {}
    /\ now = 0
    /\ procs = [p \in Procs |-> Idle]

NextListing ==
    \E p \in Procs :
        \/ Return(p)
        \/ \E skip \in {0, 1}, limit \in {1, 100},
              sort \in Optional(SortingFields), order \in Optional(SortingOrder),
              price_filter_op \in Optional(PriceFilterOp),
              price_filter_value \in Optional(PriceFilterValues) :
                list_products(p, skip, limit, sort, order, price_filter_op,
                              price_filter_value)
        \/ \E product_id \in ProductIdStrs : get_product(p, product_id)

SpecListing == InitStocked /\ [][NextListing]_vars

\* The product routes, with logins and requests of an administrator and of
\* a shopper.
NextProducts ==
    \E p \in Procs :
        \/ Return(p)
        \/ \E username \in Usernames : login_for_access_token(p, username, "pw1")
        \/ \E token \in IssuedTokens \cup ForgedTokens,
              scopes \in {CurrentUserIdMe, CurrentUserIdAdmin} :
                Authenticate(p, token, scopes)
        \/ \E name \in ProductNames, price \in Prices : create_product(p, name, price)
        \/ \E sort \in Optional(SortingFields), order \in Optional(SortingOrder) :
                list_products(p, 0, 100, sort, order, None, None)
        \/ \E product_id \in ProductIdStrs : get_product(p, product_id)
        \/ \E product_id \in ProductIdStrs, name \in Optional(ProductNames),
              price \in Optional(NewPrices) :
                patch_product(p, product_id, name, price)
        \/ \E product_id \in ProductIdStrs, name \in ProductNames,
              price \in NewPrices :
                put_product(p, product_id, name, price)
        \/ \E product_id \in ProductIdStrs : delete_product(p, product_id)

SpecProducts == InitRegistered /\ [][NextProducts]_vars

\* The items of carts: alice and bob, each with a cart, add and remove the
\* products of a catalogue of three.
StockedIds == {IdStr(Oid("products", n)) : n \in 1..3}

InitShopping ==
    /\ users = {[_id |-> Alice, username |-> "alice",
                 hashed_password |-> get_password_hash("pw1"), name |-> ""],
                [_id |-> Bob, username |-> "bob",
                 hashed_password |-> get_password_hash("pw1"), name |-> ""]}
    /\ permissions = {[user_id |-> Alice, scope |-> "shopper"],
                      [user_id |-> Alice, scope |-> "me"],
                      [user_id |-> Alice, scope |-> "admin"],
                      [user_id |-> Bob, scope |-> "shopper"],
                      [user_id |-> Bob, scope |-> "me"]}
    /\ carts = {[_id |-> Oid("carts", 1), user_id |-> Alice, items |-> <<>>],
                [_id |-> Oid("carts", 2), user_id |-> Bob, items |-> <<>>]}
    /\ products = {[_id |-> Oid("products", 1), name |-> "pear", price |-> 0],
                   [_id |-> Oid("products", 2), name |-> "apple", price |-> 5],
                   [_id |-> Oid("products", 3), name |-> "apple", price |-> 7]}
    /\ usernameIndex = TRUE
    /\ pendingInserts = {}
    /\ nextOid = [users |-> 2, carts |-> 2, products |-> 3]
    /\ tokens = {}
    /\ now = 0
    /\ procs = [p \in Procs |-> Idle]

NextItems ==
    \E p \in Procs :
        \/ Return(p)
        \/ login_for_access_token(p, "alice", "pw1")
        \/ \E token \in IssuedTokens : Authenticate(p, token, CurrentUserIdMe)
        \/ \E cart_id \in CartIdStrs, product_id \in StockedIds :
                add_item_to_cart(p, cart_id, product_id)
        \/ \E cart_id \in CartIdStrs, product_id \in StockedIds \cup {MalformedId} :
                remove_item_from_cart(p, cart_id, product_id)

SpecItems == InitShopping /\ [][NextItems]_vars

(***************************************************************************)
(* Properties.                                                             *)
(***************************************************************************)
\* The scopes stored for an identity, and the identity a username names.
Granted(user_id) == {g.scope : g \in {h \in permissions : h.user_id = user_id}}
Named(username) == {u._id : u \in {v \in users : v.username = username}}

\* The dependency chain has answered or passed the request of p.
Checked(p) == procs[p].pc \in {"body", "done"} /\ procs[p].op = ""
RequiredOf(proc) == {proc.scopes[i] : i \in 1..Len(proc.scopes)}
Required(p) == RequiredOf(procs[p])

\* C1: whenever the token of a request resolves to a principal, the request
\* passes get_current_authorized_user_id, with the principal's identity id,
\* if and only if every scope of the required list is among the principal's
\* grants; a principal that lacks one of them is denied.
C1_ScopeConjunction ==
    \A p \in Procs :
        Checked(p) /\ procs[p].token \in IssuedTokens =>
            \A id \in Named(procs[p].token.sub) :
                IF Required(p) \subseteq Granted(id)
                THEN procs[p].pc = "body" /\ procs[p].uid = id
                ELSE procs[p].pc = "done" /\ procs[p].resp.status >= 400

\* A principal holding the first of two required scopes and not the second
\* has been denied.
C1_Witness ==
    \E p \in Procs :
        /\ Checked(p) /\ procs[p].pc = "done"
        /\ procs[p].token \in IssuedTokens
        /\ Len(procs[p].scopes) = 2
        /\ \E id \in Named(procs[p].token.sub) :
            /\ procs[p].scopes[1] \in Granted(id)
            /\ procs[p].scopes[2] \notin Granted(id)

\* C2: a request whose token resolves to a principal that lacks a required
\* scope is answered 403 Forbidden, and never 401 Unauthorized.
C2_ForbiddenWhenScopeMissing ==
    \A p \in Procs :
        /\ Checked(p) /\ procs[p].pc = "done"
        /\ procs[p].token \in IssuedTokens
        /\ \E id \in Named(procs[p].token.sub) : ~(Required(p) \subseteq Granted(id))
        => procs[p].resp.status = 403

\* The ways a token fails to establish a principal.
Malformed(token) == ~token.wf
BadSignature(token) == token.wf /\ token.key # SECRET_KEY
Expired(token) ==
    token.wf /\ token.key = SECRET_KEY /\ token.exp * TicksPerSecond <= now
NoSubject(token) ==
    token.wf /\ token.key = SECRET_KEY /\ ~Expired(token) /\ ~token.has_sub
UnknownSubject(token) ==
    /\ token.wf /\ token.key = SECRET_KEY /\ ~Expired(token) /\ token.has_sub
    /\ Named(token.sub) = {}
Unresolvable(token) ==
    \/ Malformed(token) \/ BadSignature(token) \/ Expired(token)
    \/ NoSubject(token) \/ UnknownSubject(token)

\* C3: a request whose token is malformed, wrongly signed, expired, without
\* a subject, or names no identity of the store is answered with one and the
\* same 401 (WWW-Authenticate: Bearer, the same detail) whatever the cause,
\* and resolves no principal.
C3_OneUnauthorized ==
    [][\A p \in Procs :
        /\ procs[p].pc = "idle"
        /\ procs'[p].pc \in {"body", "done"} /\ procs'[p].op = ""
        /\ Unresolvable(procs'[p].token)
        => /\ procs'[p].pc = "done"
           /\ procs'[p].resp = credentials_exception
           /\ procs'[p].uid = NoId /\ procs'[p].perms = {}]_vars

\* The unexpired token of a deleted account has been answered 401.
C3_Witness ==
    \E p \in Procs :
        /\ Checked(p) /\ procs[p].pc = "done"
        /\ procs[p].token \in IssuedTokens
        /\ UnknownSubject(procs[p].token)
        /\ procs[p].resp = credentials_exception

CartOps == {"create_cart", "get_cart", "add_item_to_cart", "remove_item_from_cart",
            "clear_cart", "delete_cart"}

\* p completes the body of a cart route in this step.
ServesCart(p) ==
    procs[p].pc = "body" /\ procs'[p].pc = "done" /\ procs'[p].op \in CartOps

\* C4: a cart request made with the token of identity A, whatever cart id it
\* names, leaves every cart of another identity as it was, creates no cart
\* for another identity and returns no cart but one of A.
C4_OwnershipIsolation ==
    [][\A p \in Procs : ServesCart(p) =>
        \A A \in Named(procs[p].token.sub) :
            /\ \A c \in carts : c.user_id # A => c \in carts'
            /\ \A c \in carts' \ carts : c.user_id = A
            /\ procs'[p].resp.cart # NoCart => procs'[p].resp.cart.user_id = A]_vars

\* A has asked to delete a cart by the id of a cart of B, which is still there.
C4_Witness ==
    \E p \in Procs :
        /\ procs[p].pc = "done" /\ procs[p].op = "delete_cart"
        /\ \E c \in carts :
            /\ c._id = procs[p].target
            /\ c.user_id \notin Named(procs[p].token.sub)

\* C5: a cart route addressed by cart id (for add_item_to_cart, with an
\* existing product) that names a cart the caller does not own answers the
\* 404 of get_cart_from_db, the same whether the cart is another identity's
\* or does not exist, and so never 401 or 403.
C5_ForeignCartIsNotFound ==
    [][\A p \in Procs :
        /\ ServesCart(p) /\ procs'[p].op # "create_cart"
        /\ procs'[p].target # NoId
        /\ procs'[p].op = "add_item_to_cart" =>
                \E product \in products : product._id = procs'[p].item
        /\ ~\E c \in carts : c._id = procs'[p].target /\ c.user_id = procs[p].uid
        => procs'[p].resp = CartNotFound(procs[p].uid, procs'[p].target)]_vars

\* An item was to be added to a cart that exists and is another identity's:
\* the answer is the 404.
C5_Witness ==
    \E p \in Procs :
        /\ procs[p].pc = "done" /\ procs[p].op = "add_item_to_cart"
        /\ \E product \in products : product._id = procs[p].item
        /\ \E c \in carts : c._id = procs[p].target /\ c.user_id # procs[p].uid
        /\ procs[p].resp = CartNotFound(procs[p].uid, procs[p].target)

\* C6: the scope set a request is authorized against is the one stored in
\* the permissions collection when the request is served: after a grant has
\* been deleted, a request with the same token resolves the reduced set and
\* is denied a route that requires the deleted scope.
C6_RevocationImmediate ==
    [][\A p \in Procs :
        /\ procs[p].pc = "idle"
        /\ procs'[p].pc \in {"body", "done"} /\ procs'[p].op = ""
        /\ procs'[p].token \in IssuedTokens
        => \A id \in Named(procs'[p].token.sub) :
            /\ procs'[p].perms = Granted(id)
            /\ procs'[p].pc = "body" <=> RequiredOf(procs'[p]) \subseteq Granted(id)]_vars

\* Two requests with one token: the first passed a route requiring me and is
\* still being served, the second was denied the same route.
C6_Witness ==
    \E p, q \in Procs :
        /\ procs[q].pc = "body" /\ procs[q].scopes = CurrentUserIdMe
        /\ procs[p].pc = "done" /\ procs[p].op = "" /\ procs[p].scopes = CurrentUserIdMe
        /\ procs[p].token = procs[q].token
        /\ procs[p].resp = permission_exception
        /\ "me" \in procs[q].perms /\ "me" \notin procs[p].perms

\* The dependency chain answers or passes the request of p in this step.
Authenticating(p) ==
    procs[p].pc = "idle" /\ procs'[p].pc \in {"body", "done"} /\ procs'[p].op = ""

\* A token issued at time T: T + 1440 minutes, and the expiry it carries.
Lifetime(t) == t.at + ExpireTicks
Expiry(t) == t.tok.exp * TicksPerSecond

\* The request of p, made with the issued token t, resolves the identity the
\* subject names (if there is one); or it is answered 401.
Resolves(p, t) ==
    Named(t.tok.sub) # {} => procs'[p].uid \in Named(t.tok.sub)
Refused(p) == procs'[p].pc = "done" /\ procs'[p].resp = credentials_exception

\* C7 as stated: a token issued at T carries the expiry T + 1440 minutes
\* exactly; a request with it resolves its subject at any time before
\* T + 1440 minutes and is answered 401 at any time from then on.
C7_ExactLifetime ==
    [][/\ \A t \in tokens' : Expiry(t) = Lifetime(t)
       /\ \A p \in Procs : Authenticating(p) =>
            \A t \in {u \in tokens : u.tok = procs'[p].token} :
                /\ now < Lifetime(t) => Resolves(p, t)
                /\ now >= Lifetime(t) => Refused(p)]_vars

\* C7 as amended: the expiry carried is T + 1440 minutes cut down to the
\* whole second (at most T + 1440 minutes and less than a second before it);
\* a request with the token resolves its subject at any time before that
\* expiry and is answered 401 at any time from it on, so at any time from
\* T + 1440 minutes on.
C7_TruncatedLifetime ==
    [][/\ \A t \in tokens' :
            /\ Expiry(t) <= Lifetime(t)
            /\ Lifetime(t) < Expiry(t) + TicksPerSecond
            /\ t.tok.sub \in Usernames
       /\ \A p \in Procs : Authenticating(p) =>
            \A t \in {u \in tokens : u.tok = procs'[p].token} :
                /\ now < Expiry(t) => Resolves(p, t)
                /\ now >= Expiry(t) => Refused(p)
                /\ now >= Lifetime(t) => Refused(p)]_vars

\* A token issued between two whole seconds has been refused at or after
\* T + 1440 minutes.
C7_Witness ==
    \E p \in Procs :
        /\ Checked(p) /\ procs[p].pc = "done"
        /\ procs[p].resp = credentials_exception
        /\ \E t \in tokens :
            /\ t.tok = procs[p].token
            /\ t.at % TicksPerSecond # 0
            /\ now >= Lifetime(t)

\* C8: when create_user has answered 201 for a new identity, the grants
\* stored for it are {shopper, me}, with admin if the admin flag was set.
C8_GrantsStoredOnReturn ==
    \A p \in Procs :
        /\ procs[p].pc = "done" /\ procs[p].op = "create_user"
        /\ procs[p].resp.status = 201
        => Granted(procs[p].target) =
                {BASE_PERMISSIONS[i] : i \in 1..Len(BASE_PERMISSIONS)} \cup
                (IF procs[p].flag
                 THEN {ADMIN_PERMISSIONS[i] : i \in 1..Len(ADMIN_PERMISSIONS)}
                 ELSE {})

\* C9: when an account deletion has answered 204, the store holds no cart of
\* the deleted identity.
C9_NoCartAfterDeletion ==
    \A p \in Procs :
        /\ procs[p].pc = "done"
        /\ procs[p].op \in {"delete_current_user", "delete_user"}
        /\ procs[p].resp.status = 204
        => \A c \in carts : c.user_id # procs[p].target

\* The request of proc may read, change or delete the document of U.
MayTouch(proc, U) ==
    \/ proc.scopes = CurrentUserIdMe /\ "me" \in proc.perms /\ proc.uid = U
    \/ "admin" \in proc.perms

\* C10: a step of a protected route that returns, changes or deletes the
\* document of identity U is taken for a request whose resolved principal is
\* U itself, holding me, on a route requiring me, or holds admin.
C10_ProfileOwnership ==
    [][\A p \in Procs : procs'[p] # procs[p] /\ procs'[p].op # "create_user" =>
        /\ \A u \in users : u \notin users' => MayTouch(procs[p], u._id)
        /\ procs'[p].pc = "done" =>
                \A u \in procs'[p].resp.users : MayTouch(procs[p], u._id)]_vars

\* A principal without admin has changed its own document while another
\* identity is in the store.
C10_Witness ==
    \E p \in Procs :
        /\ procs[p].pc = "done" /\ procs[p].op = "patch_user_me"
        /\ procs[p].resp.status = 200
        /\ "admin" \notin procs[p].perms
        /\ \E u \in users : u._id # procs[p].uid

\* The answer of login_for_access_token to bad credentials.
IncorrectLogin ==
    [Response(401, "Incorrect username or password") EXCEPT !.hdr = "Bearer"]

\* p ends a login in this step.
LogsIn(p) ==
    procs[p].pc = "idle" /\ procs'[p].pc = "done" /\ procs'[p].op = "login"

\* The hash stored for u in the next state is new or has changed.
HashSet(u) ==
    ~\E v \in users : v._id = u._id /\ v.hashed_password = u.hashed_password

\* C11: a hash is stored only by a registration or an update that carries a
\* password, and is the hash of that password; login answers a token whose
\* subject is the given username if and only if an identity has that
\* username and the given password is the one its stored hash was made of,
\* and otherwise answers the one 401 with WWW-Authenticate: Bearer and
\* issues no token.
C11_Login ==
    [][/\ \A u \in users' : HashSet(u) =>
            \E p \in Procs :
                /\ procs'[p] # procs[p]
                /\ procs'[p].op \in {"create_user", "patch_user_me", "patch_user"}
                /\ procs'[p].target = u._id
                /\ procs'[p].form[2] # ""
                /\ u.hashed_password = get_password_hash(procs'[p].form[2])
       /\ \A p \in Procs : LogsIn(p) =>
            LET username == procs'[p].form[1]
                password == procs'[p].form[2]
                token == procs'[p].resp.token
            IN  IF \E u \in users : /\ u.username = username
                                    /\ u.hashed_password = get_password_hash(password)
                THEN /\ procs'[p].resp.status = 200
                     /\ token \in IssuedTokens'
                     /\ token.has_sub /\ token.sub = username
                ELSE /\ procs'[p].resp = IncorrectLogin
                     /\ tokens' = tokens]_vars

\* A login with the password of the registration has been answered 401 for
\* an identity whose password was updated since.
C11_Witness ==
    \E p \in Procs :
        /\ procs[p].pc = "done" /\ procs[p].op = "login"
        /\ procs[p].form[2] = "pw1"
        /\ procs[p].resp = IncorrectLogin
        /\ \E u \in users : /\ u.username = procs[p].form[1]
                             /\ u.hashed_password = get_password_hash("pw2")

\* p starts a registration in this step.
Registers(p) ==
    procs[p].pc = "idle" /\ procs'[p].op = "create_user"

\* C12: a registration under a username that an identity of the store holds
\* is answered 409 Conflict, and adds no identity, no grant and no cart.
C12_DuplicateIsConflict ==
    [][\A p \in Procs :
        /\ Registers(p)
        /\ \E u \in users : u.username = procs'[p].form[1]
        => /\ procs'[p].pc = "done"
           /\ procs'[p].resp.status = 409
           /\ UNCHANGED <<users, permissions, carts, pendingInserts>>]_vars

\* C13: the users collection holds at most one document per username.
C13_UsernameUnique ==
    \A u, v \in users : u.username = v.username => u = v

\* A listing parameter was supplied in the request.
Supplied(param) == param # None
ExactlyOne(a, b) == Supplied(a) # Supplied(b)

\* C14: list_products answers 400 exactly when exactly one of sort and order
\* or exactly one of price_filter_op and price_filter_value is supplied.
C14_ListingValidation ==
    \A p \in Procs :
        procs[p].pc = "done" /\ procs[p].op = "list_products" =>
            LET q == procs[p].query IN
            (procs[p].resp.status = 400) <=>
                \/ ExactlyOne(q.sort, q.order)
                \/ ExactlyOne(q.price_filter_op, q.price_filter_value)

\* The identities a token was issued to at login.
IssuedTo(token) == {t.to : t \in {u \in tokens : u.tok = token}}

\* C15: a request bearing a token issued at login resolves to no principal
\* but an identity the token was issued to.
C15_TokenBoundToIdentity ==
    \A p \in Procs :
        /\ Checked(p)
        /\ procs[p].token \in IssuedTokens
        /\ procs[p].uid # NoId
        => procs[p].uid \in IssuedTo(procs[p].token)

\* C16: the step in which the dependency chain resolves and checks the
\* principal of a request writes to no collection, and a request it has
\* rejected (invalid token, or a required scope missing) does nothing more
\* than return its answer: the body of the route is never entered.
C16_AuthorizationWritesNothing ==
    [][\A p \in Procs :
        /\ Authenticating(p) =>
                UNCHANGED <<users, permissions, carts, products, pendingInserts>>
        /\ procs[p].pc = "done" /\ procs[p].op = "" /\ procs'[p] # procs[p] =>
                /\ procs'[p] = Idle
                /\ UNCHANGED <<users, permissions, carts, products, pendingInserts>>]_vars

\* A resolved principal has been denied for a missing scope, and the grants
\* it holds are still in the store.
C16_Witness ==
    \E p \in Procs :
        /\ Checked(p) /\ procs[p].pc = "done"
        /\ procs[p].resp = permission_exception
        /\ procs[p].uid # NoId
        /\ Granted(procs[p].uid) # {}

\* C17: no step updates or deletes a permission grant: a step leaves every
\* stored grant in place, a grant that appears is the next document of an
\* insert_many started by a registration, and the step that deletes an
\* identity leaves the grants, its own included, as they were.
C17_GrantsOnlyGrow ==
    [][/\ permissions \subseteq permissions'
       /\ \A g \in permissions' \ permissions :
            \E batch \in pendingInserts : g = Head(batch)
       /\ users' # users /\ users' \subseteq users => permissions' = permissions]_vars

\* An account deletion has answered 204 and the grants of the deleted
\* identity are still in the store.
C17_Witness ==
    \E p \in Procs :
        /\ procs[p].pc = "done"
        /\ procs[p].op \in {"delete_current_user", "delete_user"}
        /\ procs[p].resp.status = 204
        /\ \A u \in users : u._id # procs[p].target
        /\ Granted(procs[p].target) # {}

ProductOps == {"create_product", "patch_product", "put_product", "delete_product"}

\* C18: a step that inserts, updates or deletes a product is the body of
\* create_product, patch_product, put_product or delete_product, taken for a
\* request whose principal, as resolved for that request, holds admin; and
\* get_product and list_products are served without a credential.
C18_ProductsUnderAdmin ==
    [][/\ products' # products =>
            \E p \in Procs :
                /\ procs[p].pc = "body" /\ procs'[p].pc = "done"
                /\ procs'[p].op \in ProductOps
                /\ procs[p].uid # NoId
                /\ "admin" \in procs[p].perms
       /\ \A p \in Procs :
            procs'[p] # procs[p] /\ procs'[p].op \in {"get_product", "list_products"} =>
                /\ procs[p].pc = "idle" /\ procs[p].token = NoToken
                /\ procs'[p].resp.status \notin {401, 403}]_vars

\* A shopper has been denied a product route while the catalogue holds a
\* product that an administrator changed.
C18_Witness ==
    \E p \in Procs :
        /\ Checked(p) /\ procs[p].pc = "done"
        /\ procs[p].scopes = CurrentUserIdAdmin
        /\ procs[p].uid # NoId /\ "admin" \notin procs[p].perms
        /\ \E d \in products : d.price = 7

\* The elements of a sequence of items.
ItemsOf(items) == {items[i] : i \in 1..Len(items)}

\* C19: remove_item_from_cart on a cart of the caller answers 400 and leaves
\* the carts as they were if the product id is not among the cart's items;
\* otherwise the cart keeps, in their order, exactly the items that differ
\* from the product id, whatever the number of its occurrences, and the
\* other carts are unchanged.
C19_RemoveItem ==
    [][\A p \in Procs :
        /\ procs[p].pc = "body" /\ procs'[p].pc = "done"
        /\ procs'[p].op = "remove_item_from_cart"
        /\ procs'[p].item # NoId
        => \A c \in carts :
            c._id = procs'[p].target /\ c.user_id = procs[p].uid =>
                IF procs'[p].item \notin ItemsOf(c.items)
                THEN /\ procs'[p].resp.status = 400
                     /\ carts' = carts
                ELSE LET kept == [c EXCEPT !.items =
                            SelectSeq(@, LAMBDA x : x # procs'[p].item)]
                     IN  /\ carts' = (carts \ {c}) \cup {kept}
                         /\ procs'[p].resp.status = 200
                         /\ procs'[p].resp.cart = kept]_vars

\* A removal has left two different items in the cart of the caller, which
\* therefore held the removed product once between, before or after them.
C19_Witness ==
    \E p \in Procs :
        /\ procs[p].pc = "done" /\ procs[p].op = "remove_item_from_cart"
        /\ procs[p].resp.status = 200
        /\ procs[p].resp.cart.user_id = procs[p].uid
        /\ Len(procs[p].resp.cart.items) = 2
        /\ procs[p].resp.cart.items[1] # procs[p].resp.cart.items[2]

====
